---- MODULE Spec2Model ----
(***************************************************************************)
(* Model of backtest_xauusd_atr.py: the CSV loader load_xauusd_data, the   *)
(* indicators and the per-bar decision of ATRMeanReversion, and the        *)
(* bar-by-bar execution engine that the script drives through              *)
(* Backtest(...).run().  The engine is the imported `backtesting` package: *)
(* its code is not part of the source file, so its steps are modelled from *)
(* the specification (section 4.4).                                        *)
(*                                                                         *)
(* Numbers.  Prices of bars are integers.  The code works in floating      *)
(* point; the model works in exact rationals on fixed denominators, so     *)
(* rounding error of the floating-point operations is not modelled:        *)
(*   level scale  LS = 2 * atr_period : ATR, stop-loss, take-profit        *)
(*   channel scale KS = kc_period * LS : kc_middle, kc_upper, kc_lower     *)
(*   money scale  MS = commission_den * LS : cash, equity, P&L             *)
(* A value x is stored as the integer x * scale.                           *)
(***************************************************************************)
EXTENDS Integers, Sequences, FiniteSets, TLC

VARIABLES
    market,       \* the price level and tick of the bar series being replayed
    phase,        \* "feed": the engine takes the next bar; "strategy": next() runs
    status,       \* "running" | "fatal" (input error) | "error" (exception)
    i,            \* number of bars accepted so far (len(self.data))
    nFed,         \* number of bars handed to the engine
    offered,      \* the bar handed to the engine last
    bar,          \* the current bar: the last one the engine accepted
    closes,       \* the last kc_period closes (window of kc_middle)
    trs,          \* the last atr_period true ranges (window of atr)
    ind,          \* indicator values at the current bar
    open,         \* the open positions, oldest first
    cash,         \* account cash (money scale)
    equity,       \* last marked-to-market equity (money scale)
    nEquity,      \* number of equity points
    ledger,       \* closed trades: count, sum of net P&L, the last trade
    intent,       \* the order next() placed on the current bar, if any
    entry_price,  \* self.entry_price
    stop_loss,    \* self.stop_loss
    take_profit,  \* self.take_profit
    df            \* the loader's call: the file read and the frame returned

vars == <<market, phase, status, i, nFed, offered, bar, closes, trs, ind, open, cash,
          equity, nEquity, ledger, intent, entry_price, stop_loss, take_profit, df>>

runVars == <<market, phase, status, i, nFed, offered, bar, closes, trs, ind, open, cash,
             equity, nEquity, ledger, intent, entry_price, stop_loss, take_profit>>

----------------------------------------------------------------------------
(* Bounds of the model. *)

\* Bars replayed in one run.
MaxBars == 21

\* Rows of an input table of the loader.
MaxRows == 2

----------------------------------------------------------------------------
(* Program constants. *)

kc_period == 20
atr_period == 14
\* kc_multiplier = 1.5, tp_multiplier = 1.5, sl_multiplier = 1.0, held doubled.
kc_multiplier_x2 == 3
tp_multiplier_x2 == 3
sl_multiplier_x2 == 2
\* risk_per_trade = 0.02 = 1 / risk_per_trade_den
risk_per_trade_den == 50
\* Backtest(cash=100000, commission=0.002 = 1 / commission_den)
starting_cash == 100000
commission_den == 500

LS == 2 * atr_period
KS == kc_period * LS
MS == commission_den * LS

----------------------------------------------------------------------------
(* Optional values: NaN / None against a number. *)

NaN == [def |-> FALSE, v |-> 0]
Val(x) == [def |-> TRUE, v |-> x]

Abs(x) == IF x < 0 THEN -x ELSE x
Max2(a, b) == IF a >= b THEN a ELSE b

RECURSIVE SeqSum(_)
SeqSum(s) == IF s = <<>> THEN 0 ELSE Head(s) + SeqSum(Tail(s))

\* The last n elements of s appended with x (a rolling window of length n).
Window(s, x, n) ==
    LET t == Append(s, x)
    IN  IF Len(t) > n THEN SubSeq(t, Len(t) - n + 1, Len(t)) ELSE t

----------------------------------------------------------------------------
(* Indicators: ATRMeanReversion.init *)

\* pd.Series(close).rolling(kc_period).mean() at the current bar, channel scale:
\* defined once the window holds kc_period closes.
kc_middle(cs) ==
    IF Len(cs) = kc_period THEN Val(LS * SeqSum(cs)) ELSE NaN

\* DataFrame.max(axis=1): the largest of the cells that are not NaN
\* (skipna), NaN only when every cell is.
RowMax(cells) ==
    LET defd == {c \in cells : c.def}
    IN  IF defd = {} THEN NaN
        ELSE Val(CHOOSE m \in {c.v : c \in defd} : \A c \in defd : c.v <= m)

\* The row maximum taken with NaN propagating.
TrueRange_propagating(b, prev) ==
    IF prev.def
    THEN Val(Max2(b.h - b.l, Max2(Abs(b.h - prev.v), Abs(b.l - prev.v))))
    ELSE NaN

\* tr of one bar: prev is close.shift(1), NaN on the first bar.
TrueRange(b, prev) ==
    LET tr1 == Val(b.h - b.l)
        tr2 == IF prev.def THEN Val(Abs(b.h - prev.v)) ELSE NaN
        tr3 == IF prev.def THEN Val(Abs(b.l - prev.v)) ELSE NaN
    IN  RowMax({tr1, tr2, tr3})

\* tr.rolling(window=period).mean() at the current bar, level scale: defined
\* once the window holds atr_period values, none of them NaN.
calc_atr(ts) ==
    IF Len(ts) = atr_period /\ \A k \in 1..Len(ts) : ts[k].def
    THEN Val((LS \div atr_period) * SeqSum([k \in 1..Len(ts) |-> ts[k].v]))
    ELSE NaN

\* kc_middle + atr * kc_multiplier, channel scale; NaN when either is.
kc_upper(mid, atr) ==
    IF mid.def /\ atr.def
    THEN Val(mid.v + (kc_multiplier_x2 * kc_period * atr.v) \div 2)
    ELSE NaN

kc_lower(mid, atr) ==
    IF mid.def /\ atr.def
    THEN Val(mid.v - (kc_multiplier_x2 * kc_period * atr.v) \div 2)
    ELSE NaN

Indicators(cs, ts) ==
    LET mid == kc_middle(cs)
        atr == calc_atr(ts)
    IN  [kc_middle |-> mid, atr |-> atr,
         kc_upper |-> kc_upper(mid, atr), kc_lower |-> kc_lower(mid, atr)]

----------------------------------------------------------------------------
(* The decision of one bar: ATRMeanReversion.next *)

NoOrder == [def |-> FALSE, dir |-> 0, size |-> 0, sl |-> 0, tp |-> 0, ref |-> 0]

\* The position test left out.
no_position_unchecked(inPos) == TRUE

\* `not self.position`
no_position(inPos) == ~inPos

\* current_low < kc_lower[-1] or current_close < kc_lower[-1]
LongBreach(b, in) == KS * b.l < in.kc_lower.v \/ KS * b.c < in.kc_lower.v

\* current_high > kc_upper[-1] or current_close > kc_upper[-1]
ShortBreach(b, in) == KS * b.h > in.kc_upper.v \/ KS * b.c > in.kc_upper.v

\* The two multipliers exchanged.
LongLevels_swapped(close, atr) ==
    [entry |-> LS * close,
     sl |-> LS * close - (tp_multiplier_x2 * atr) \div 2,
     tp |-> LS * close + (sl_multiplier_x2 * atr) \div 2]

\* entry_price, stop_loss, take_profit of a long entry (level scale).
LongLevels(close, atr) ==
    [entry |-> LS * close,
     sl |-> LS * close - (sl_multiplier_x2 * atr) \div 2,
     tp |-> LS * close + (tp_multiplier_x2 * atr) \div 2]

\* entry_price, stop_loss, take_profit of a short entry (level scale).
ShortLevels(close, atr) ==
    [entry |-> LS * close,
     sl |-> LS * close + (sl_multiplier_x2 * atr) \div 2,
     tp |-> LS * close - (tp_multiplier_x2 * atr) \div 2]

\* Python's int(a / b) for b > 0: truncation toward zero.
PyInt(a, b) == IF a >= 0 THEN a \div b ELSE -((-a) \div b)

\* The quantity without its minimum of 1.
position_size_unfloored(eq, rpu) ==
    PyInt(PyInt(eq, commission_den * risk_per_trade_den), rpu)

\* max(int(risk_amount / risk_per_unit), 1) with risk_amount = equity *
\* risk_per_trade; eq on the money scale, rpu on the level scale, so the
\* quotient is eq / (commission_den * risk_per_trade_den * rpu), taken in two
\* truncating steps (equal to one, and within the integer range).
position_size(eq, rpu) ==
    Max2(PyInt(PyInt(eq, commission_den * risk_per_trade_den), rpu), 1)

Entry(dir, lv, eq) ==
    [order |-> [def |-> TRUE, dir |-> dir,
                size |-> position_size(eq, Abs(lv.entry - lv.sl)),
                sl |-> lv.sl, tp |-> lv.tp, ref |-> lv.entry],
     fields |-> [entry_price |-> Val(lv.entry), stop_loss |-> Val(lv.sl),
                 take_profit |-> Val(lv.tp)],
     raised |-> FALSE]

\* next() without the test risk_per_unit > 0: the division by a zero stop
\* distance raises.
next_noStopGuard(b, in, inPos, eq, fields) ==
    LET keep == [order |-> NoOrder, fields |-> fields, raised |-> FALSE]
        fail == [order |-> NoOrder, fields |-> fields, raised |-> TRUE]
    IN  IF ~in.kc_middle.def THEN keep
        ELSE IF ~in.atr.def THEN keep
        ELSE IF no_position(inPos) /\ LongBreach(b, in)
        THEN IF b.c > b.o
             THEN LET lv == LongLevels(b.c, in.atr.v)
                  IN  IF Abs(lv.entry - lv.sl) = 0 THEN fail ELSE Entry(1, lv, eq)
             ELSE keep
        ELSE IF no_position(inPos) /\ ShortBreach(b, in)
        THEN IF b.c < b.o
             THEN LET lv == ShortLevels(b.c, in.atr.v)
                  IN  IF Abs(lv.sl - lv.entry) = 0 THEN fail ELSE Entry(-1, lv, eq)
             ELSE keep
        ELSE keep

\* next(): b the current bar, in the indicator values at it, inPos
\* bool(self.position), eq self.equity, fields the three tracked attributes.
\* The result is the order placed (if any), the tracked attributes after the
\* call, and whether the call raised.
next(b, in, inPos, eq, fields) ==
    LET keep == [order |-> NoOrder, fields |-> fields, raised |-> FALSE]
    IN  IF ~in.kc_middle.def THEN keep
        ELSE IF ~in.atr.def THEN keep
        ELSE IF no_position(inPos) /\ LongBreach(b, in)
        THEN IF b.c > b.o
             THEN LET lv == LongLevels(b.c, in.atr.v)
                  IN  IF Abs(lv.entry - lv.sl) > 0 THEN Entry(1, lv, eq) ELSE keep
             ELSE keep
        ELSE IF no_position(inPos) /\ ShortBreach(b, in)
        THEN IF b.c < b.o
             THEN LET lv == ShortLevels(b.c, in.atr.v)
                  IN  IF Abs(lv.sl - lv.entry) > 0 THEN Entry(-1, lv, eq) ELSE keep
             ELSE keep
        ELSE keep

----------------------------------------------------------------------------
(* The execution engine, Backtest(data, ATRMeanReversion, cash=100000,     *)
(* commission=0.002, exclusive_orders=True).run(): modelled from the       *)
(* specification, section 4.4.                                             *)

\* The timestamp left unchecked.
AcceptableBar_pricesOnly(b, prev, n) ==
    b.l <= b.o /\ b.l <= b.c /\ b.o <= b.h /\ b.c <= b.h

\* low <= min(open, close) <= max(open, close) <= high, and a timestamp after
\* the previous bar's.
AcceptableBar(b, prev, n) ==
    /\ b.l <= b.o /\ b.l <= b.c /\ b.o <= b.h /\ b.c <= b.h
    /\ n = 0 \/ b.ts > prev.ts

\* commission = price * quantity * commission_rate (money scale; price on
\* the level scale).
Commission(price, qty) == price * qty

\* (exit - entry) * quantity * sign(direction), money scale.
GrossPnl(p, exit) == p.dir * (exit - p.entry) * p.qty * commission_den

\* unrealized_pnl(open_position, bar.close)
Unrealized(ps, close) ==
    IF ps = <<>> THEN 0 ELSE GrossPnl(ps[1], LS * close)

\* The stop-loss first, whatever the bar's direction.
TieBreak_stopFirst(p, b) == p.sl

\* Which level the bar fills when both are inside its range: the stop-loss
\* on a bar that closed below its open, the take-profit otherwise.
TieBreak(p, b) == IF b.c < b.o THEN p.sl ELSE p.tp

\* The price at which bar b closes position p, if it does.
ExitFill(p, b) ==
    LET slHit == IF p.dir = 1 THEN LS * b.l <= p.sl ELSE LS * b.h >= p.sl
        tpHit == IF p.dir = 1 THEN LS * b.h >= p.tp ELSE LS * b.l <= p.tp
    IN  IF slHit /\ tpHit THEN Val(TieBreak(p, b))
        ELSE IF slHit THEN Val(p.sl)
        ELSE IF tpHit THEN Val(p.tp)
        ELSE NaN

\* The exit commission not charged.
CashAfterExit_noCommission(c, p, exit) == c + GrossPnl(p, exit)

\* Cash after position p closes at exit: gross P&L less the exit commission
\* (the entry commission was debited when the position opened).
CashAfterExit(c, p, exit) == c + GrossPnl(p, exit) - Commission(exit, p.qty)

\* net P&L of the trade = gross - entry commission - exit commission
NetPnl(p, exit) == GrossPnl(p, exit) - p.comm - Commission(exit, p.qty)

\* exclusive_orders=True: an intent is taken only while no position is open.
Exclusive(ps) == ps = <<>>

\* A stop-loss on the wrong side of the reference price is rejected.
RightSided(o) == IF o.dir = 1 THEN o.sl < o.ref ELSE o.sl > o.ref

Accepted(o, ps) == o.def /\ Exclusive(ps) /\ RightSided(o)

\* The position an accepted intent opens on bar b.
PositionOf(o, b) ==
    [dir |-> o.dir, entry |-> o.ref, qty |-> o.size, sl |-> o.sl, tp |-> o.tp,
     comm |-> Commission(o.ref, o.size), ts |-> b.ts]

\* Entry commission already debited for the position still open.
OpenCommission(ps) == IF ps = <<>> THEN 0 ELSE ps[1].comm

NoTrade == [dir |-> 0, entry |-> 0, exit |-> 0, qty |-> 0, sl |-> 0, tp |-> 0,
            net |-> 0, ts |-> 0]

----------------------------------------------------------------------------
(* The loader: load_xauusd_data.  A file is the set of its column names    *)
(* (after the renaming of lines 34-54) and its rows; a row gives a cell,   *)
(* NaN or a number, for each of the five columns (the Volume cell is not   *)
(* read when the file has no such column).                                 *)

OHLC == {"Open", "High", "Low", "Close"}
Columns == OHLC \cup {"Volume"}

NotLoaded == [state |-> "none", file |-> <<>>, rows |-> <<>>]

\* df['Volume'] = 0 when the column is missing.
WithVolume(cols, row) ==
    IF "Volume" \in cols THEN row ELSE [row EXCEPT !["Volume"] = Val(0)]

\* DataFrame.dropna(): the rows without a NaN cell, in order.
RECURSIVE DropNa(_)
DropNa(rows) ==
    IF rows = <<>> THEN <<>>
    ELSE IF \A col \in Columns : Head(rows)[col].def
    THEN <<Head(rows)>> \o DropNa(Tail(rows))
    ELSE DropNa(Tail(rows))

\* df[df > 0]: every row kept, each cell that is not > 0 replaced by NaN.
MaskPositive(rows) ==
    [k \in 1..Len(rows) |->
        [col \in Columns |-> IF rows[k][col].def /\ rows[k][col].v > 0
                             THEN rows[k][col] ELSE NaN]]

\* The outcome of load_xauusd_data on file f: sys.exit(1) when the file does
\* not exist, ValueError when an OHLC column is missing, IndexError from the
\* report of df.index[0] and df.index[1] when fewer than two rows are left,
\* else the cleaned frame.
load_xauusd_data(f) ==
    IF ~f.exists THEN [state |-> "exit", file |-> f, rows |-> <<>>]
    ELSE IF ~(OHLC \subseteq f.cols)
    THEN [state |-> "raised", file |-> f, rows |-> <<>>]
    ELSE LET filled == [k \in 1..Len(f.rows) |-> WithVolume(f.cols, f.rows[k])]
             clean == MaskPositive(DropNa(filled))
         IN  IF Len(clean) < 2
             THEN [state |-> "raised", file |-> f, rows |-> <<>>]
             ELSE [state |-> "returned", file |-> f, rows |-> clean]

\* The cells a file may hold.
CellValues == {NaN, Val(-1), Val(5)}

FileRows(cols) ==
    {r \in [Columns -> CellValues] : "Volume" \notin cols => r["Volume"] = NaN}

\* The column sets a file may have: all five, no Volume, no Close.
FileColumns == {Columns, OHLC, Columns \ {"Close"}}

\* The tables of n rows over the columns cols.
Tables(cols, n) == [1..n -> FileRows(cols)]

----------------------------------------------------------------------------
(* The bar series.  A run replays a quiet stretch at the market's level and *)
(* then bars of the shapes below; offsets are in ticks from the previous    *)
(* close.                                                                   *)

\* Price level and tick size of the two series replayed.
Markets == {[base |-> 100, tick |-> 1], [base |-> 50000, tick |-> 600]}

\* The bars before this index are quiet.
QuietBars == kc_period - 2

Flat == [o |-> 0, h |-> 0, l |-> 0, c |-> 0, dt |-> 1]

Shapes ==
    { Flat,
      [o |-> -28, h |-> 0,  l |-> -28, c |-> 0,  dt |-> 1],  \* dip, rally back
      [o |-> 28,  h |-> 28, l |-> 0,   c |-> 0,  dt |-> 1],  \* spike, fade back
      [o |-> -30, h |-> 30, l |-> -30, c |-> 30, dt |-> 1],  \* rally through
      [o |-> 3,   h |-> 4,  l |-> -3,  c |-> -2, dt |-> 1],  \* wide, closes down
      [o |-> -2,  h |-> 4,  l |-> -3,  c |-> 3,  dt |-> 1],  \* wide, closes up
      [o |-> 0,   h |-> 3,  l |-> 0,   c |-> 3,  dt |-> 1],  \* up
      [o |-> 0,   h |-> 0,  l |-> -2,  c |-> -2, dt |-> 1],  \* down
      [o |-> 1,   h |-> 2,  l |-> -1,  c |-> 0,  dt |-> 1],  \* inside, closes down
      [o |-> 1,   h |-> 60, l |-> -60, c |-> -1, dt |-> 1],  \* both channels, down
      [o |-> 0,   h |-> -1, l |-> 0,   c |-> 0,  dt |-> 1],  \* high below low
      [o |-> 0,   h |-> 0,  l |-> 0,   c |-> 0,  dt |-> 0] } \* repeated timestamp

FirstShapes == {Flat, [o |-> 0, h |-> 1, l |-> -1, c |-> 0, dt |-> 1]}

BarOf(sh, prev, m) ==
    [ts |-> prev.ts + sh.dt,
     o |-> prev.c + sh.o * m.tick, h |-> prev.c + sh.h * m.tick,
     l |-> prev.c + sh.l * m.tick, c |-> prev.c + sh.c * m.tick]

\* The bars that may follow bar prev as bar number n (0-based).
Menu(n, prev, m) ==
    LET shapes == IF n = 0 THEN FirstShapes
                  ELSE IF n < QuietBars THEN {Flat}
                  ELSE Shapes
    IN  {BarOf(sh, prev, m) : sh \in shapes}

----------------------------------------------------------------------------
(* The run. *)

NoFields == [entry_price |-> NaN, stop_loss |-> NaN, take_profit |-> NaN]

InitRun ==
    /\ market \in Markets
    /\ phase = "feed"
    /\ status = "running"
    /\ i = 0
    /\ nFed = 0
    /\ bar = [ts |-> 0, o |-> market.base, h |-> market.base,
              l |-> market.base, c |-> market.base]
    /\ offered = bar
    /\ closes = <<>>
    /\ trs = <<>>
    /\ ind = Indicators(<<>>, <<>>)
    /\ open = <<>>
    /\ cash = starting_cash * MS
    /\ equity = starting_cash * MS
    /\ nEquity = 0
    /\ ledger = [n |-> 0, net |-> 0, last |-> NoTrade]
    /\ intent = NoOrder
    /\ entry_price = NaN
    /\ stop_loss = NaN
    /\ take_profit = NaN

Init == InitRun /\ df = NotLoaded

\* The engine takes bar b: refuses it when it breaks the input contract,
\* else appends it to the data, advances the indicators and closes the open
\* position when the bar reaches its stop-loss or take-profit.
Feed(b) ==
    /\ status = "running"
    /\ phase = "feed"
    /\ nFed' = nFed + 1
    /\ offered' = b
    /\ IF ~AcceptableBar(b, bar, i)
       THEN /\ status' = "fatal"
            /\ UNCHANGED <<market, phase, i, bar, closes, trs, ind, open, cash, equity,
                           nEquity, ledger, intent, entry_price, stop_loss,
                           take_profit, df>>
       ELSE LET prev == IF i = 0 THEN NaN ELSE Val(bar.c)
                cs == Window(closes, b.c, kc_period)
                ts == Window(trs, TrueRange(b, prev), atr_period)
                fill == IF open = <<>> THEN NaN ELSE ExitFill(open[1], b)
            IN  /\ i' = i + 1
                /\ bar' = b
                /\ closes' = cs
                /\ trs' = ts
                /\ ind' = Indicators(cs, ts)
                /\ IF fill.def
                   THEN /\ open' = <<>>
                        /\ cash' = CashAfterExit(cash, open[1], fill.v)
                        /\ ledger' = [n |-> ledger.n + 1,
                                      net |-> ledger.net + NetPnl(open[1], fill.v),
                                      last |-> [dir |-> open[1].dir,
                                                entry |-> open[1].entry,
                                                exit |-> fill.v,
                                                qty |-> open[1].qty,
                                                sl |-> open[1].sl,
                                                tp |-> open[1].tp,
                                                net |-> NetPnl(open[1], fill.v),
                                                ts |-> b.ts]]
                   ELSE UNCHANGED <<open, cash, ledger>>
                /\ phase' = "strategy"
                /\ intent' = NoOrder
                /\ UNCHANGED <<market, status, equity, nEquity, entry_price,
                               stop_loss, take_profit, df>>

\* __main__ calls load_xauusd_data on the file at DATA_PATH.
Load ==
    /\ df.state = "none"
    /\ \E exists \in BOOLEAN, cols \in FileColumns, n \in 0..MaxRows :
          \E t \in Tables(cols, n) :
             /\ ~exists => n = 0
             /\ df' = load_xauusd_data([exists |-> exists, cols |-> cols,
                                        rows |-> t])
    /\ UNCHANGED runVars

SpecLoad == Init /\ [][Load]_vars

\* The states in which the engine calls next(): a bar, indicator values at
\* it, no position or one open, the account.  An ATR of 0 on a bar whose
\* close differs from its open stands for a stop distance that evaluates to
\* 0 (close - ATR = close in floating point, or rows that are not
\* OHLC-consistent).
PolicyBars ==
    {b \in Menu(kc_period, [ts |-> kc_period, o |-> 100, h |-> 100, l |-> 100,
                            c |-> 100], [base |-> 100, tick |-> 1]) :
        AcceptableBar(b, [ts |-> kc_period], kc_period)}

PolicyPositions ==
    {<<>>,
     <<[dir |-> 1, entry |-> LS * 100, qty |-> 1000, sl |-> LS * 40,
        tp |-> LS * 200, comm |-> Commission(LS * 100, 1000), ts |-> kc_period]>>}

InitPolicy ==
    /\ market = [base |-> 100, tick |-> 1]
    /\ phase = "strategy"
    /\ status = "running"
    /\ i = kc_period + 1
    /\ nFed = kc_period + 1
    /\ bar \in PolicyBars
    /\ offered = bar
    /\ closes = <<>>
    /\ trs = <<>>
    /\ \E mid \in {NaN, Val(KS * 100)}, atr \in {NaN, Val(0), Val(2 * LS)} :
          ind = [kc_middle |-> mid, atr |-> atr,
                 kc_upper |-> kc_upper(mid, atr), kc_lower |-> kc_lower(mid, atr)]
    /\ open \in PolicyPositions
    /\ cash = starting_cash * MS - OpenCommission(open)
    /\ equity = cash + Unrealized(open, 100)
    /\ nEquity = kc_period
    /\ ledger = [n |-> 0, net |-> 0, last |-> NoTrade]
    /\ intent = NoOrder
    /\ \E lv \in {NoFields, [entry_price |-> Val(LS * 100), stop_loss |-> Val(LS * 40),
                                take_profit |-> Val(LS * 200)]} :
          /\ entry_price = lv.entry_price
          /\ stop_loss = lv.stop_loss
          /\ take_profit = lv.take_profit
    /\ df = NotLoaded

NextBar ==
    /\ i < MaxBars
    /\ \E b \in Menu(i, bar, market) : Feed(b)

\* The engine calls next() on the current bar, takes or drops the order it
\* placed, and marks equity to market at the bar's close.
StrategyNext ==
    /\ status = "running"
    /\ phase = "strategy"
    /\ LET eq == cash + Unrealized(open, bar.c)
           r == next(bar, ind, open # <<>>, eq,
                     [entry_price |-> entry_price, stop_loss |-> stop_loss,
                      take_profit |-> take_profit])
       IN  IF r.raised
           THEN /\ status' = "error"
                /\ UNCHANGED <<market, phase, i, nFed, offered, bar, closes, trs,
                               ind, open, cash, equity, nEquity, ledger, intent, entry_price,
                               stop_loss, take_profit, df>>
           ELSE LET take == Accepted(r.order, open)
                    ps == IF take THEN <<PositionOf(r.order, bar)>> ELSE open
                    c == IF take THEN cash - Commission(r.order.ref, r.order.size)
                         ELSE cash
                IN  /\ intent' = r.order
                    /\ entry_price' = r.fields.entry_price
                    /\ stop_loss' = r.fields.stop_loss
                    /\ take_profit' = r.fields.take_profit
                    /\ open' = ps
                    /\ cash' = c
                    /\ equity' = c + Unrealized(ps, bar.c)
                    /\ nEquity' = nEquity + 1
                    /\ phase' = "feed"
                    /\ UNCHANGED <<market, status, i, nFed, offered, bar, closes,
                                   trs, ind, ledger, df>>

Next == NextBar \/ StrategyNext

Spec == Init /\ [][Next]_vars

\* next() applied to each of its call states.
SpecPolicy == InitPolicy /\ [][StrategyNext]_vars

----------------------------------------------------------------------------
(* Claims about the run. *)

\* StrategyNext has just run on the current bar.
Decided == status = "running" /\ phase = "feed" /\ i >= 1

\* C4: every order next() places has the bar's close as its reference price
\* and, with ATR the value at the current bar, for a long stop-loss = close -
\* sl_multiplier * ATR and take-profit = close + tp_multiplier * ATR, for a
\* short stop-loss = close + sl_multiplier * ATR and take-profit = close -
\* tp_multiplier * ATR; the tracked attributes hold the same three prices.
C4_LevelsFromCloseAndAtr ==
    (Decided /\ intent.def) =>
        /\ ind.atr.def
        /\ ind.atr = calc_atr(trs)
        /\ intent.ref = LS * bar.c
        /\ intent.dir \in {1, -1}
        /\ 2 * intent.dir * (intent.ref - intent.sl) = sl_multiplier_x2 * ind.atr.v
        /\ 2 * intent.dir * (intent.tp - intent.ref) = tp_multiplier_x2 * ind.atr.v
        /\ entry_price = Val(intent.ref)
        /\ stop_loss = Val(intent.sl)
        /\ take_profit = Val(intent.tp)

\* C4 witness: a long placed at close 100 with ATR 2 has stop-loss 98 and
\* take-profit 103.
C4_Witness ==
    /\ Decided /\ intent.def /\ intent.dir = 1
    /\ bar.c = 100 /\ ind.atr = Val(2 * LS)
    /\ intent.sl = 98 * LS /\ intent.tp = 103 * LS

\* next() is about to run on the current bar.
Deciding == status = "running" /\ phase = "strategy"

\* self.equity as next() reads it.
EquityNow == cash + Unrealized(open, bar.c)

\* n * risk_per_unit <= equity * risk_per_trade, for rpu on the level scale
\* and eq on the money scale (n >= 1), without leaving the integer range.
RiskCovers(n, rpu, eq) ==
    rpu <= (eq \div n) \div (commission_den * risk_per_trade_den)

\* C5: the quantity of every order placed with stop distance d = |entry -
\* stop_loss| > 0 is max(floor(equity_before_trade * risk_per_trade / d), 1):
\* at least 1, equal to 1 exactly when the risk budget is below 2 * d, and
\* otherwise the largest q with q * d within the risk budget.
C5_SizeIsFlooredRiskOverDistance ==
    [][ (Deciding /\ intent'.def) =>
          LET d == Abs(intent'.ref - intent'.sl)
              q == intent'.size
          IN  /\ d > 0
              /\ q >= 1
              /\ (q = 1) <=> ~RiskCovers(2, d, EquityNow)
              /\ q > 1 => RiskCovers(q, d, EquityNow) /\ ~RiskCovers(q + 1, d, EquityNow)
      ]_vars

\* C5 witness: with equity 100000 and stop distance 2 the quantity is 1000.
C5_Witness ==
    /\ Decided /\ intent.def /\ intent.size = 1000
    /\ Abs(intent.ref - intent.sl) = 2 * LS
    /\ cash + Commission(intent.ref, intent.size) = starting_cash * MS

BothInRange(p, b) ==
    /\ LS * b.l <= p.sl /\ p.sl <= LS * b.h
    /\ LS * b.l <= p.tp /\ p.tp <= LS * b.h

\* C2: a bar whose [low, high] range contains both the stop-loss and the
\* take-profit of the open position closes it on that bar, at the stop-loss
\* when the bar's close is below its open and at the take-profit otherwise.
C2_BothTouchedResolvedByBarDirection ==
    [][ (status = "running" /\ phase = "feed" /\ phase' = "strategy"
         /\ open # <<>> /\ BothInRange(open[1], bar')) =>
          /\ open' = <<>>
          /\ ledger'.n = ledger.n + 1
          /\ ledger'.last.exit = IF bar'.c < bar'.o THEN open[1].sl ELSE open[1].tp
      ]_vars

\* C2 witness: the long with stop-loss 98 and take-profit 103 is closed at 98
\* by a bar with low 97 and high 104 that closes below its open.
C2_Witness ==
    /\ Deciding /\ ledger.n >= 1 /\ ledger.last.ts = bar.ts
    /\ ledger.last.dir = 1
    /\ ledger.last.sl = 98 * LS /\ ledger.last.tp = 103 * LS
    /\ bar.l = 97 /\ bar.h = 104 /\ bar.c < bar.o
    /\ ledger.last.exit = 98 * LS

\* C3 (as claimed): on every bar where no position is open, the indicators
\* are defined and the stop distance is not zero, next() places a short
\* whenever (high > upper channel or close > upper channel) and close < open,
\* whether or not the bar also breaches the lower channel.
C3_ShortOnEveryUpperBreachClosingDown ==
    [][ (Deciding /\ phase' = "feed" /\ open = <<>>
         /\ ind.kc_middle.def /\ ind.atr.def /\ ind.atr.v # 0
         /\ (KS * bar.h > ind.kc_upper.v \/ KS * bar.c > ind.kc_upper.v)
         /\ bar.c < bar.o) =>
          (intent'.def /\ intent'.dir = -1)
      ]_vars


C8_BadBarIsFatal ==
    /\ [][ (nFed' # nFed /\
            ~(/\ offered'.l <= offered'.o /\ offered'.l <= offered'.c
              /\ offered'.o <= offered'.h /\ offered'.c <= offered'.h
              /\ (i = 0 \/ offered'.ts > bar.ts))) =>
             (status' = "fatal" /\
              UNCHANGED <<i, bar, closes, trs, ind, open, cash, equity, nEquity,
                          ledger, intent>>)
         ]_vars
    /\ [][ status = "fatal" => UNCHANGED vars ]_vars

\* C8 witness: the run ended fatal on a bar with a repeated timestamp while a
\* position was open.
C8_Witness ==
    status = "fatal" /\ offered.ts = bar.ts /\ open # <<>>

\* C9 (as claimed): the true range of the first bar is undefined, the ATR is
\* undefined whenever a true range in its window is, the channels are
\* undefined whenever the moving average or the ATR is, and ATR and both
\* channels are undefined at every bar index < atr_period.
C9_UndefinedAsClaimed ==
    i >= 1 =>
        /\ i = 1 => ~trs[1].def
        /\ (\E k \in 1..Len(trs) : ~trs[k].def) => ~ind.atr.def
        /\ (~ind.kc_middle.def \/ ~ind.atr.def) =>
               (~ind.kc_upper.def /\ ~ind.kc_lower.def)
        /\ i - 1 < atr_period =>
               (~ind.atr.def /\ ~ind.kc_upper.def /\ ~ind.kc_lower.def)

Larger(a, b) == IF a >= b THEN a ELSE b

\* C9 (amended): the true range of the first bar is high - low; the ATR at
\* bar index k is undefined exactly when k < atr_period - 1 (or a true range
\* in its window is undefined), the moving average exactly when k < kc_period
\* - 1, and each channel exactly when the moving average or the ATR is; so
\* both channels are undefined at every index < max(kc_period, atr_period) - 1.
C9_UndefinedBelowWindowLess1 ==
    i >= 1 =>
        /\ trs[Len(trs)].def
        /\ i = 1 => trs[1] = Val(bar.h - bar.l)
        /\ (\E k \in 1..Len(trs) : ~trs[k].def) => ~ind.atr.def
        /\ ind.atr.def <=> (i - 1 >= atr_period - 1)
        /\ ind.kc_middle.def <=> (i - 1 >= kc_period - 1)
        /\ ind.kc_upper.def <=> (ind.kc_middle.def /\ ind.atr.def)
        /\ ind.kc_lower.def <=> (ind.kc_middle.def /\ ind.atr.def)
        /\ i - 1 < Larger(kc_period, atr_period) - 1 =>
               (~ind.kc_upper.def /\ ~ind.kc_lower.def)

\* C9 witness: at bar index atr_period - 1 the ATR is defined and both
\* channels are not.
C9_Witness ==
    /\ i - 1 = atr_period - 1
    /\ ind.atr.def /\ ~ind.kc_upper.def /\ ~ind.kc_lower.def

----------------------------------------------------------------------------
(* Claims about next() on its call states, and about the loader. *)

\* C6: when an entry condition holds on a bar with no position open and the
\* stop distance is 0 (ATR = 0 at that bar), next() places no order: no
\* position is opened, cash, equity and the tracked entry/stop/target
\* attributes stay as they were, nothing is raised and the run goes on to
\* the next bar.
C6_ZeroStopDistancePlacesNothing ==
    [][ (Deciding /\ open = <<>> /\ ind.kc_middle.def /\ ind.atr.def
         /\ ind.atr.v = 0
         /\ \/ (KS * bar.l < ind.kc_lower.v \/ KS * bar.c < ind.kc_lower.v)
               /\ bar.c > bar.o
            \/ (KS * bar.h > ind.kc_upper.v \/ KS * bar.c > ind.kc_upper.v)
               /\ bar.c < bar.o) =>
          /\ intent' = NoOrder
          /\ open' = <<>>
          /\ cash' = cash /\ equity' = equity
          /\ entry_price' = entry_price /\ stop_loss' = stop_loss
          /\ take_profit' = take_profit
          /\ status' = "running" /\ phase' = "feed"
      ]_vars

\* C6 witness: next() ran on a bar that dips below the lower channel and
\* closes above its open, with ATR 0 and no position, and placed nothing.
C6_Witness ==
    /\ Decided /\ open = <<>> /\ intent = NoOrder
    /\ ind.kc_lower.def /\ ind.atr = Val(0)
    /\ KS * bar.l < ind.kc_lower.v /\ bar.c > bar.o
    /\ entry_price.def

\* Row r has a missing, zero or negative cell.
BadRow(r) == \E col \in Columns : ~r[col].def \/ r[col].v <= 0

\* C10 (as claimed): the frame load_xauusd_data returns holds exactly the
\* rows of the input without a missing, zero or negative value in Open,
\* High, Low, Close or Volume (Volume being 0 when the input has no such
\* column), so every cell of it is present and strictly positive.
C10_RowsWithBadValuesRemoved ==
    df.state = "returned" =>
        LET input == [k \in 1..Len(df.file.rows) |->
                         WithVolume(df.file.cols, df.file.rows[k])]
        IN  /\ \A k \in 1..Len(df.rows) : \A col \in Columns :
                   df.rows[k][col].def /\ df.rows[k][col].v > 0
            /\ Len(df.rows) = Cardinality({k \in 1..Len(input) : ~BadRow(input[k])})

====
